---------------------------- MODULE Spec2Model ----------------------------
(***************************************************************************)
(* A model of tools/DDLPromiseImageHelper.cpp: the image catalog           *)
(* (fImageInfo), the deflate hook, uploadAllToGPU, the per-token reinflate *)
(* callback PromiseImageCreator, the done callback and the teardown of the *)
(* helper.  SkASSERT / SkAssertResult stop the program in a debug build    *)
(* and check nothing in a release build; the build is fixed in Init.       *)
(* A second, independent part models src/gpu/gl/GrGLSemaphore.cpp: one     *)
(* semaphore object and the GL sync objects it is given.                   *)
(***************************************************************************)
EXTENDS Integers, Sequences, FiniteSets, TLC

VARIABLES
    debug,        \* TRUE: SK_DEBUG build (assertions checked)
    abort,        \* "none", or the place where the process stopped
    phase,        \* "Open", "Uploading", "Ready", "TornDown"
    fImageInfo,   \* the catalog: SkTArray<PromiseImageInfo>
    contexts,     \* every PromiseImageCallbackContext ever created
    stream,       \* tokens written by the deflate hook, in order
    regLog,       \* one record per findOrDefineImage call of the hook: what
                  \* findImage found, the value returned, the catalog sizes
    rec,          \* per recorder: its reinflateSKP call
    sem           \* one GrGLSemaphore, the GL syncs made and the calls on it

helperVars == <<debug, abort, phase, fImageInfo, contexts, stream, regLog, rec>>

vars == <<debug, abort, phase, fImageInfo, contexts, stream, regLog, rec, sem>>

-----------------------------------------------------------------------------
(* Bounds *)

MaxPicture == 2       \* image nodes in the picture handed to deflateSKP
MaxRegistrations == 4 \* image nodes when only deflateSKP runs
NumRecorders == 2     \* recorders that call reinflateSKP
MaxLivePicture == 1   \* image nodes where progress to teardown is followed
MaxSyncs == 3         \* GL sync objects handed to the semaphore
MaxSemCalls == 4      \* calls made on the semaphore

Recorders == 1..NumRecorders

(* Program constants *)

kMaxCount == 4        \* SkYUVASizeInfo::kMaxCount
kIndexCount == 4      \* SkYUVAIndex::kIndexCount
kA_Index == 3         \* SkYUVAIndex::kA_Index

-----------------------------------------------------------------------------
(* The images a picture may embed.                                         *)

NoSizes == <<0, 0, 0, 0>>
NoIndices == <<-1, -1, -1, -1>>

ImgA == [uid |-> 1, w |-> 512, h |-> 512, ct |-> "RGBA_8888", at |-> "opaque",
         yuv |-> FALSE, yuvaIndices |-> NoIndices, sizes |-> NoSizes,
         decodable |-> TRUE, pixels |-> "pxA"]
ImgB == [uid |-> 2, w |-> 512, h |-> 512, ct |-> "RGBA_8888", at |-> "opaque",
         yuv |-> TRUE, yuvaIndices |-> <<0, 1, 2, -1>>, sizes |-> <<512, 256, 256, 0>>,
         decodable |-> TRUE, pixels |-> "pxB"]
ImgC == [uid |-> 3, w |-> 64, h |-> 32, ct |-> "RGBA_8888", at |-> "premul",
         yuv |-> FALSE, yuvaIndices |-> NoIndices, sizes |-> NoSizes,
         decodable |-> FALSE, pixels |-> "pxC"]
ImgD == [uid |-> 4, w |-> 256, h |-> 128, ct |-> "Alpha_8", at |-> "premul",
         yuv |-> FALSE, yuvaIndices |-> NoIndices, sizes |-> NoSizes,
         decodable |-> TRUE, pixels |-> "pxD"]

\* a YUV image with U and V interleaved in one plane: luma in plane 0, both
\* chroma channels in plane 1
ImgE == [uid |-> 5, w |-> 512, h |-> 512, ct |-> "RGBA_8888", at |-> "opaque",
         yuv |-> TRUE, yuvaIndices |-> <<0, 1, 1, -1>>, sizes |-> <<512, 256, 0, 0>>,
         decodable |-> TRUE, pixels |-> "pxE"]

Images == {ImgA, ImgB, ImgC, ImgD}

\* the images of pictures whose images all decompose into planes
PlaneImages == {ImgB, ImgE}

ImageOf(uid) == CHOOSE img \in Images \cup PlaneImages : img.uid = uid

-----------------------------------------------------------------------------
(* PromiseImageInfo                                                        *)

NoBitmap == [pixels |-> "none", immutable |-> FALSE, w |-> 0, h |-> 0,
             ct |-> "unknown", at |-> "unknown"]
NoPixmap == [pixels |-> "none", w |-> 0, h |-> 0, ct |-> "unknown"]
NoContexts == <<0, 0, 0, 0>>

\* PromiseImageInfo(index, originalUniqueID, overallII)
PromiseImageInfo(index, uid, ii) ==
    [index |-> index, originalUniqueID |-> uid, overallII |-> ii,
     yuvData |-> FALSE, yuvaIndices |-> NoIndices,
     yuvPixmaps |-> <<NoPixmap, NoPixmap, NoPixmap, NoPixmap>>,
     normalBitmap |-> NoBitmap,
     callbackContexts |-> NoContexts]

isYUV(info) == info.yuvData

setYUVData(info, indices) == [info EXCEPT !.yuvData = TRUE, !.yuvaIndices = indices]

\* plane is the 0-based plane slot of the code
addYUVPlane(info, plane, pm) == [info EXCEPT !.yuvPixmaps[plane + 1] = pm]

setNormalBitmap(info, bm) == [info EXCEPT !.normalBitmap = bm]

setCallbackContext(info, plane, c) == [info EXCEPT !.callbackContexts[plane + 1] = c]

isValidID(infos, id) == id >= 0 /\ id < Len(infos)

\* SkYUVAIndex::AreValidIndices: validity and the number of planes
ValidIndexCount(indices) == Cardinality({k \in 1..kIndexCount : indices[k] >= 0})

AreValidIndices(indices) ==
    [valid |-> /\ \A k \in 1..kIndexCount : indices[k] < kMaxCount
               /\ \A k \in 1..kIndexCount : indices[k] < 0 => k - 1 = kA_Index,
     numPlanes |-> ValidIndexCount(indices)]

-----------------------------------------------------------------------------
(* The token: SkData::MakeWithCopy(&id, sizeof(id)) writes the int as four *)
(* bytes; PromiseImageCreator reads them back as an int.                   *)

Byte(n, k) == (n \div (256 ^ k)) % 256

IntToBytes(id) ==
    IF id >= 0
    THEN <<Byte(id, 0), Byte(id, 1), Byte(id, 2), Byte(id, 3)>>
    ELSE LET m == -(id + 1)
         IN <<255 - Byte(m, 0), 255 - Byte(m, 1), 255 - Byte(m, 2), 255 - Byte(m, 3)>>

BytesToInt(b) ==
    IF b[4] < 128
    THEN b[1] + 256 * b[2] + 65536 * b[3] + 16777216 * b[4]
    ELSE -(1 + (255 - b[1]) + 256 * (255 - b[2]) + 65536 * (255 - b[3])
             + 16777216 * (255 - b[4]))

-----------------------------------------------------------------------------
(* findImage, addImage, findOrDefineImage                                  *)

\* findImage with a comparison that never matches
findImageMissesAll(infos, uid) == -1

\* the first position whose entry has this unique id, 0-based, or -1
findImage(infos, uid) ==
    LET hits == {i \in 1..Len(infos) : infos[i].originalUniqueID = uid}
    IN IF hits = {} THEN -1
       ELSE (CHOOSE i \in hits : \A j \in hits : i <= j) - 1

\* SkASSERT(fImageInfo[i].index() == i) of findImage, at the entry found
findImageAssertOk(infos, uid) ==
    LET i == findImage(infos, uid)
    IN i >= 0 => (infos[i + 1].index = i /\ isValidID(infos, infos[i + 1].index))

\* the colour type addImage derives for plane slot t (0-based) from the indices
RECURSIVE PlaneColorType(_, _, _)
PlaneColorType(indices, t, k) ==
    IF k = 0 THEN "unknown"
    ELSE LET before == PlaneColorType(indices, t, k - 1)
         IN IF indices[k] # t THEN before
            ELSE IF before = "unknown" THEN "Alpha_8" ELSE "RGBA_8888"

RECURSIVE AddPlanes(_, _, _)
AddPlanes(info, img, i) ==
    IF i = kMaxCount THEN info
    ELSE IF img.sizes[i + 1] = 0 THEN AddPlanes(info, img, i + 1)
    ELSE AddPlanes(addYUVPlane(info, i,
                       [pixels |-> <<img.pixels, i>>, w |-> img.sizes[i + 1],
                        h |-> img.sizes[i + 1],
                        ct |-> PlaneColorType(img.yuvaIndices, i, kIndexCount)]),
                   img, i + 1)

\* emplace_back with the count taken after the append
NewEntryCountAfter(infos, img) ==
    PromiseImageInfo(Len(infos) + 1, img.uid,
                     [w |-> img.w, h |-> img.h, ct |-> img.ct, at |-> img.at])

\* the entry emplace_back creates
NewEntry(infos, img) ==
    PromiseImageInfo(Len(infos), img.uid,
                     [w |-> img.w, h |-> img.h, ct |-> img.ct, at |-> img.at])

\* addImage: the catalog after the call and the value returned
addImage(infos, img) ==
    LET newImageInfo == NewEntry(infos, img)
        grown == Append(infos, newImageInfo)
        at == Len(grown)
    IN IF img.yuv
       THEN [infos |-> [grown EXCEPT ![at] =
                           AddPlanes(setYUVData(newImageInfo, img.yuvaIndices), img, 0)],
             ret |-> Len(grown) - 1]
       ELSE IF ~img.decodable
       THEN [infos |-> grown, ret |-> -1]
       ELSE [infos |-> [grown EXCEPT ![at] =
                           setNormalBitmap(newImageInfo,
                               [pixels |-> img.pixels, immutable |-> TRUE,
                                w |-> img.w, h |-> img.h, ct |-> img.ct,
                                at |-> img.at])],
             ret |-> Len(grown) - 1]

\* findOrDefineImage: catalog, return value, and the assertion that failed
findOrDefineImage(infos, img) ==
    LET preExistingID == findImage(infos, img.uid)
    IN IF preExistingID >= 0
       THEN [infos |-> infos, ret |-> preExistingID,
             failed |-> IF findImageAssertOk(infos, img.uid) THEN "none"
                        ELSE "SkASSERT findImage:203"]
       ELSE LET a == addImage(infos, img)
            IN [infos |-> a.infos, ret |-> a.ret,
                failed |-> IF isValidID(a.infos, a.ret) THEN "none"
                           ELSE "SkASSERT findOrDefineImage:287"]

-----------------------------------------------------------------------------
(* PromiseImageCallbackContext: an SkRefCnt object holding one texture.    *)
(* minted and done count the references taken for promise images and the  *)
(* done callbacks received; the program itself keeps only refCnt.          *)

\* a context whose creator holds no reference to it
NewContextUnowned(valid) ==
    [refCnt |-> 0, texValid |-> valid, deletes |-> 0, minted |-> 0, done |-> 0]

\* new PromiseImageCallbackContext(context) held by one sk_sp, then
\* setBackendTexture(createTestingOnlyBackendTexture(...))
NewContext(valid) ==
    [refCnt |-> 1, texValid |-> valid, deletes |-> 0, minted |-> 0, done |-> 0]

\* a destructor that leaves the texture behind
DestroyKeepsTexture(ctx) == ctx

\* ~PromiseImageCallbackContext: delete the texture if the handle is valid
Destroy(ctx) ==
    [ctx EXCEPT !.deletes = IF ctx.texValid THEN @ + 1 ELSE @]

\* SkRefCnt::unref: the last reference destroys the object
Unref(ctx) ==
    LET less == [ctx EXCEPT !.refCnt = @ - 1]
    IN IF less.refCnt = 0 THEN Destroy(less) ELSE less

\* the context handed to the image without a reference of its own
RefForImageBorrowed(ctx) == [ctx EXCEPT !.minted = @ + 1]

\* the reference handed to the image takes the texture handle with it
RefForImageTakesTexture(ctx) ==
    [ctx EXCEPT !.refCnt = @ + 1, !.minted = @ + 1, !.texValid = FALSE]

\* refCallbackContext(i).release(): one more reference, handed to the image
RefForImage(ctx) == [ctx EXCEPT !.refCnt = @ + 1, !.minted = @ + 1]

-----------------------------------------------------------------------------
(* uploadAllToGPU                                                          *)

\* one texture for every entry, YUV or not
RECURSIVE UploadWorkFirstPlane(_, _)
UploadWorkFirstPlane(infos, i) ==
    IF i > Len(infos) THEN <<>>
    ELSE << <<i - 1, 0>> >> \o UploadWorkFirstPlane(infos, i + 1)

\* the textures the two loops create, in order: <<entry, plane>>, 0-based
RECURSIVE UploadWork(_, _)
UploadWork(infos, i) ==
    IF i > Len(infos) THEN <<>>
    ELSE (IF isYUV(infos[i])
          THEN [j \in 1..AreValidIndices(infos[i].yuvaIndices).numPlanes |-> <<i - 1, j - 1>>]
          ELSE << <<i - 1, 0>> >>)
         \o UploadWork(infos, i + 1)

\* one createTestingOnlyBackendTexture call and what follows it
UploadOne(st, item, valid, dbg) ==
    LET made == Append(st.contexts, NewContext(valid))
    IN IF isYUV(st.infos[item[1] + 1]) /\ ~valid /\ dbg
       THEN [infos |-> st.infos, contexts |-> made,
             failed |-> "SkAssertResult uploadAllToGPU:77"]
       ELSE [infos |-> [st.infos EXCEPT ![item[1] + 1] =
                           setCallbackContext(@, item[2], Len(made))],
             contexts |-> made, failed |-> "none"]

\* fails: the positions in the work list whose texture creation fails
RECURSIVE UploadFrom(_, _, _, _, _)
UploadFrom(st, work, k, fails, dbg) ==
    IF k > Len(work) \/ st.failed # "none" THEN st
    ELSE UploadFrom(UploadOne(st, work[k], k \notin fails, dbg), work, k + 1, fails, dbg)

uploadAllToGPU(infos, ctxs, fails, dbg) ==
    UploadFrom([infos |-> infos, contexts |-> ctxs, failed |-> "none"],
               UploadWork(infos, 1), 1, fails, dbg)

-----------------------------------------------------------------------------
(* PromiseImageCreator                                                     *)

NullImage == [kind |-> "null", id |-> <<0, 0>>, ctxs |-> NoContexts,
              w |-> 0, h |-> 0, ct |-> "unknown", at |-> "unknown", pixels |-> "none"]

\* SkImage::MakeFromBitmap: no image from a bitmap without pixels
MakeFromBitmap(bm, id) ==
    IF bm.pixels = "none" THEN NullImage
    ELSE [kind |-> "raster", id |-> id, ctxs |-> NoContexts,
          w |-> bm.w, h |-> bm.h, ct |-> bm.ct, at |-> bm.at, pixels |-> bm.pixels]

\* a texture taken for valid only while no image has been minted over it
backendTextureValidOnce(ctxs, info, plane) ==
    /\ info.callbackContexts[plane + 1] # 0
    /\ ctxs[info.callbackContexts[plane + 1]].texValid
    /\ ctxs[info.callbackContexts[plane + 1]].refCnt = 1

\* curImage.backendTexture(plane).isValid()
backendTextureValid(ctxs, info, plane) ==
    /\ info.callbackContexts[plane + 1] # 0
    /\ ctxs[info.callbackContexts[plane + 1]].texValid

\* a YUV promise image given the first plane only
CapturedContextsFirstPlane(info) == <<info.callbackContexts[1], 0, 0, 0>>

\* the contexts a promise image of this entry captures, by plane slot
CapturedContexts(info) ==
    IF isYUV(info)
    THEN [p \in 1..kMaxCount |->
             IF p <= AreValidIndices(info.yuvaIndices).numPlanes
             THEN info.callbackContexts[p] ELSE 0]
    ELSE <<info.callbackContexts[1], 0, 0, 0>>

\* recorder->makeYUVAPromiseTexture is given the planes, the index mapping
\* and the overall width and height, and no colour type or alpha type: the
\* image it mints is RGBA, with alpha when the mapping has an alpha plane
YUVAPromiseColorType == "RGBA_8888"

YUVAPromiseAlphaType(indices) ==
    IF indices[kA_Index + 1] >= 0 THEN "premul" ELSE "opaque"

\* what memory holds where fImageInfo[idx] is read out of range
GarbageEntry == PromiseImageInfo(-1, 0, [w |-> 0, h |-> 0, ct |-> "unknown", at |-> "unknown"])

\* lines 132-197 for the entry read; id names the image object created
ResolveEntry(ctxs, curImage, idx, id, dbg) ==
    IF ~backendTextureValid(ctxs, curImage, 0)
    THEN IF dbg /\ isYUV(curImage)
         THEN [contexts |-> ctxs, image |-> NullImage, pushed |-> FALSE,
               failed |-> "SkASSERT PromiseImageCreator:133"]
         ELSE IF dbg /\ ~curImage.normalBitmap.immutable
         THEN [contexts |-> ctxs, image |-> NullImage, pushed |-> FALSE,
               failed |-> "SkASSERT PromiseImageCreator:136"]
         ELSE [contexts |-> ctxs, image |-> MakeFromBitmap(curImage.normalBitmap, id),
               pushed |-> FALSE, failed |-> "none"]
    ELSE IF dbg /\ curImage.index # idx
    THEN [contexts |-> ctxs, image |-> NullImage, pushed |-> FALSE,
          failed |-> "SkASSERT PromiseImageCreator:139"]
    ELSE LET captured == CapturedContexts(curImage)
             used == {captured[p] : p \in 1..kMaxCount} \ {0}
         IN [contexts |-> [c \in 1..Len(ctxs) |->
                              IF c \in used THEN RefForImage(ctxs[c]) ELSE ctxs[c]],
             image |-> [kind |-> IF isYUV(curImage) THEN "yuvPromise" ELSE "promise",
                        id |-> id, ctxs |-> captured,
                        w |-> curImage.overallII.w, h |-> curImage.overallII.h,
                        ct |-> IF isYUV(curImage) THEN YUVAPromiseColorType
                               ELSE curImage.overallII.ct,
                        at |-> IF isYUV(curImage)
                               THEN YUVAPromiseAlphaType(curImage.yuvaIndices)
                               ELSE curImage.overallII.at,
                        pixels |-> "texture"],
             pushed |-> TRUE, failed |-> "none"]

\* the image returned without being recorded
push_backSkipped(list, image) == list

\* perRecorderContext->fPromiseImages->push_back(image)
push_back(list, image) == Append(list, image)

\* ub settles the read of fImageInfo[idx] when idx is out of range and no
\* assertion stops it: -1 the process crashes, -2 the memory read holds no
\* entry, j >= 0 the memory read is that of entry j
UBOutcomes(infos) == -2..(Len(infos) - 1)

PromiseImageCreator(infos, ctxs, token, id, dbg, ub) ==
    LET idx == BytesToInt(token)
    IN IF isValidID(infos, idx)
       THEN ResolveEntry(ctxs, infos[idx + 1], idx, id, dbg)
       ELSE IF dbg
       THEN [contexts |-> ctxs, image |-> NullImage, pushed |-> FALSE,
             failed |-> "SkASSERT PromiseImageCreator:128"]
       ELSE IF ub = -1
       THEN [contexts |-> ctxs, image |-> NullImage, pushed |-> FALSE,
             failed |-> "crash PromiseImageCreator:130"]
       ELSE ResolveEntry(ctxs, IF ub = -2 THEN GarbageEntry ELSE infos[ub + 1],
                         idx, id, dbg)

-----------------------------------------------------------------------------
(* GrGLSemaphore                                                           *)

\* GrGLSemaphore(gpu, isOwned): fSync(0), fIsOwned(isOwned)
GrGLSemaphore(isOwned) == [fSync |-> 0, fIsOwned |-> isOwned]

\* setSync(sync)
setSync(obj, sync) == [obj EXCEPT !.fSync = sync]

\* onRelease without the ownership test
onReleaseAnyOwner(obj) ==
    [obj |-> [obj EXCEPT !.fSync = 0], deleted |-> obj.fSync]

\* onRelease: the object after the call and the sync passed to deleteSync
\* (0: deleteSync is not called)
onRelease(obj) ==
    [obj |-> [obj EXCEPT !.fSync = 0],
     deleted |-> IF obj.fSync # 0 /\ obj.fIsOwned THEN obj.fSync ELSE 0]

\* onAbandon
onAbandon(obj) == [obj |-> [obj EXCEPT !.fSync = 0], deleted |-> 0]

\* the semaphore just constructed; no GL sync made, no call yet
SemaphoreState(isOwned) ==
    [obj |-> GrGLSemaphore(isOwned),
     made |-> 0,
     deletes |-> [h \in 1..MaxSyncs |-> 0],
     log |-> <<>>]

-----------------------------------------------------------------------------
(* The state machine                                                       *)

IdleRecorder == [status |-> "idle", data |-> <<>>, pos |-> 1,
                 promiseImages |-> <<>>, scene |-> <<>>]

Init ==
    /\ debug \in BOOLEAN
    /\ abort = "none"
    /\ phase = "Open"
    /\ fImageInfo = <<>>
    /\ contexts = <<>>
    /\ stream = <<>>
    /\ regLog = <<>>
    /\ rec = [r \in Recorders |-> IdleRecorder]
    /\ sem = SemaphoreState(TRUE)

\* the fImageProc of deflateSKP, called by the serializer at one image node
DeflateImageUpTo(img, nodes) ==
    /\ abort = "none"
    /\ phase = "Open"
    /\ Len(regLog) < nodes
    /\ LET f == findOrDefineImage(fImageInfo, img)
           stopped == debug /\ f.failed # "none"
           emitted == ~stopped /\ f.ret >= 0
       IN /\ fImageInfo' = f.infos
          /\ abort' = IF stopped THEN f.failed ELSE "none"
          /\ stream' = IF emitted THEN Append(stream, IntToBytes(f.ret)) ELSE stream
          /\ regLog' = Append(regLog,
                 [uid |-> img.uid, returned |-> ~stopped, ret |-> f.ret,
                  emitted |-> emitted,
                  found |-> findImage(fImageInfo, img.uid),
                  before |-> Len(fImageInfo), after |-> Len(f.infos)])
    /\ UNCHANGED <<sem, debug, phase, contexts, rec>>

DeflateImage(img) == DeflateImageUpTo(img, MaxPicture)

\* uploadAllToGPU, once, after the registrations
Upload ==
    /\ abort = "none"
    /\ phase = "Open"
    /\ \E fails \in SUBSET (1..Len(UploadWork(fImageInfo, 1))) :
          LET u == uploadAllToGPU(fImageInfo, contexts, fails, debug)
          IN /\ fImageInfo' = u.infos
             /\ contexts' = u.contexts
             /\ abort' = u.failed
             /\ phase' = IF u.failed = "none" THEN "Ready" ELSE "Uploading"
    /\ UNCHANGED <<sem, debug, stream, regLog, rec>>

\* the byte streams a recorder may be handed: the one deflateSKP wrote, or a
\* foreign one that holds a token no entry has
StreamChoices == {stream, Append(stream, IntToBytes(Len(fImageInfo)))}

\* reinflateSKP is entered by recorder r
BeginReinflateWith(r, choices) ==
    /\ abort = "none"
    /\ phase = "Ready"
    /\ rec[r].status = "idle"
    /\ \E data \in choices :
          rec' = [rec EXCEPT ![r] = [@ EXCEPT !.data = data,
                     !.status = IF data = <<>> THEN "done" ELSE "running"]]
    /\ UNCHANGED <<sem, debug, abort, phase, fImageInfo, contexts, stream, regLog>>

BeginReinflate(r) == BeginReinflateWith(r, StreamChoices)

\* the deserializer of recorder r reaches its next token
CreateImage(r) ==
    /\ abort = "none"
    /\ phase = "Ready"
    /\ rec[r].status = "running"
    /\ LET me == rec[r]
           oob == ~isValidID(fImageInfo, BytesToInt(me.data[me.pos]))
       IN \E ub \in (IF oob /\ ~debug THEN UBOutcomes(fImageInfo) ELSE {-1}) :
          LET p == PromiseImageCreator(fImageInfo, contexts, me.data[me.pos],
                                       <<r, me.pos>>, debug, ub)
          IN IF p.failed # "none"
             THEN /\ abort' = p.failed
                  /\ UNCHANGED <<contexts, rec>>
             ELSE /\ abort' = "none"
                  /\ contexts' = p.contexts
                  /\ rec' = [rec EXCEPT ![r] = [@ EXCEPT
                        !.pos = @ + 1,
                        !.status = IF me.pos = Len(me.data) THEN "done" ELSE "running",
                        !.scene = Append(@, p.image),
                        !.promiseImages = IF p.pushed THEN push_back(@, p.image) ELSE @]]
    /\ UNCHANGED <<sem, debug, phase, fImageInfo, stream, regLog>>

\* PromiseImageDoneProc for one reference a promise image holds on context c
Done(c) ==
    /\ abort = "none"
    /\ phase \in {"Ready", "TornDown"}
    /\ c \in 1..Len(contexts)
    /\ contexts[c].done < contexts[c].minted
    /\ contexts' = [contexts EXCEPT ![c] = [Unref(@) EXCEPT !.done = @ + 1]]
    /\ UNCHANGED <<sem, debug, abort, phase, fImageInfo, stream, regLog, rec>>

\* the contexts in slot 0 of the entries
HeldContextsFirstSlot(infos) ==
    {infos[i].callbackContexts[1] : i \in 1..Len(infos)} \ {0}

\* the contexts the catalog holds a reference to
HeldContexts(infos) ==
    {infos[i].callbackContexts[p] : i \in 1..Len(infos), p \in 1..kMaxCount} \ {0}

\* ~DDLPromiseImageHelper: fImageInfo drops its references
Teardown ==
    /\ abort = "none"
    /\ phase \in {"Open", "Ready"}
    /\ \A r \in DOMAIN rec : rec[r].status # "running"
    /\ phase' = "TornDown"
    /\ contexts' = [c \in 1..Len(contexts) |->
                       IF c \in HeldContexts(fImageInfo) THEN Unref(contexts[c])
                       ELSE contexts[c]]
    /\ UNCHANGED <<sem, debug, abort, fImageInfo, stream, regLog, rec>>

Next ==
    \/ \E img \in Images : DeflateImage(img)
    \/ Upload
    \/ \E r \in DOMAIN rec : BeginReinflate(r)
    \/ \E r \in DOMAIN rec : CreateImage(r)
    \/ \E c \in 1..Len(contexts) : Done(c)
    \/ Teardown

Spec == Init /\ [][Next]_vars

\* every recorder's deserializer runs on, the done callbacks owed are
\* delivered and the helper is destroyed
NextLive ==
    \/ \E img \in Images : DeflateImageUpTo(img, MaxLivePicture)
    \/ Upload
    \/ \E r \in DOMAIN rec : BeginReinflate(r)
    \/ \E r \in DOMAIN rec : CreateImage(r)
    \/ \E c \in 1..Len(contexts) : Done(c)
    \/ Teardown

SpecLive ==
    /\ Init /\ [][NextLive]_vars
    /\ WF_vars(\E r \in DOMAIN rec : CreateImage(r))
    /\ WF_vars(\E c \in 1..Len(contexts) : Done(c))
    /\ WF_vars(Teardown)

\* pictures of YUV images, uploaded and reinflated
NextPlanes ==
    \/ \E img \in PlaneImages : DeflateImage(img)
    \/ Upload
    \/ \E r \in DOMAIN rec : BeginReinflate(r)
    \/ \E r \in DOMAIN rec : CreateImage(r)

SpecPlanes == Init /\ [][NextPlanes]_vars

\* the semaphore alone: constructed owned or wrapped
InitSemaphore ==
    /\ debug \in BOOLEAN
    /\ abort = "none"
    /\ phase = "Open"
    /\ fImageInfo = <<>>
    /\ contexts = <<>>
    /\ stream = <<>>
    /\ regLog = <<>>
    /\ rec = [r \in Recorders |-> IdleRecorder]
    /\ \E isOwned \in BOOLEAN : sem = SemaphoreState(isOwned)

\* the gpu makes a GL sync, or is handed one, and gives it to the semaphore
SemSetSync ==
    /\ Len(sem.log) < MaxSemCalls
    /\ sem.made < MaxSyncs
    /\ sem' = [sem EXCEPT !.obj = setSync(@, sem.made + 1),
                          !.made = @ + 1,
                          !.log = Append(@, [op |-> "setSync", before |-> sem.obj.fSync,
                                             deleted |-> 0, after |-> sem.made + 1])]
    /\ UNCHANGED helperVars

\* a call of onRelease or onAbandon: c is what the call did
SemCall(op, c) ==
    /\ Len(sem.log) < MaxSemCalls
    /\ sem' = [sem EXCEPT !.obj = c.obj,
                          !.deletes = IF c.deleted \in 1..MaxSyncs
                                      THEN [@ EXCEPT ![c.deleted] = @ + 1] ELSE @,
                          !.log = Append(@, [op |-> op, before |-> sem.obj.fSync,
                                             deleted |-> c.deleted,
                                             after |-> c.obj.fSync])]
    /\ UNCHANGED helperVars

SemRelease == SemCall("onRelease", onRelease(sem.obj))

SemAbandon == SemCall("onAbandon", onAbandon(sem.obj))

NextSemaphore ==
    \/ SemSetSync
    \/ SemRelease
    \/ SemAbandon

SpecSemaphore == InitSemaphore /\ [][NextSemaphore]_vars

\* only deflateSKP runs, over a longer picture
NextRegister == \E img \in Images : DeflateImageUpTo(img, MaxRegistrations)

SpecRegister == Init /\ [][NextRegister]_vars

\* deflateSKP is called on a picture that embeds A and B and then on one
\* that embeds A; three recorders are each handed the first picture's data
ScenarioPicture == <<ImgA, ImgB, ImgA>>

ScenarioStream == SubSeq(stream, 1, 2)

InitScenario ==
    /\ debug \in BOOLEAN
    /\ abort = "none"
    /\ phase = "Open"
    /\ fImageInfo = <<>>
    /\ contexts = <<>>
    /\ stream = <<>>
    /\ regLog = <<>>
    /\ rec = [r \in 1..3 |-> IdleRecorder]
    /\ sem = SemaphoreState(TRUE)

DeflateScenario ==
    /\ Len(regLog) < Len(ScenarioPicture)
    /\ DeflateImageUpTo(ScenarioPicture[Len(regLog) + 1], Len(ScenarioPicture))

NextScenario ==
    \/ DeflateScenario
    \/ Len(regLog) = Len(ScenarioPicture) /\ Upload
    \/ \E r \in DOMAIN rec : BeginReinflateWith(r, {ScenarioStream})
    \/ \E r \in DOMAIN rec : CreateImage(r)

SpecScenario == InitScenario /\ [][NextScenario]_vars

-----------------------------------------------------------------------------
(* Properties                                                              *)

Calls == 1..Len(regLog)

\* the calls of findOrDefineImage that came back to the hook
Returned(i) == regLog[i].returned

\* C1: registering one image identity again and again returns the same
\* index every time, whatever was registered in between, and the catalog
\* grows by one entry at the first of these calls (by none if the identity
\* was registered already) and by none at the later ones.
C1_DedupIdempotence ==
    \A i \in Calls : Returned(i) =>
        /\ regLog[i].after - regLog[i].before = (IF regLog[i].found >= 0 THEN 0 ELSE 1)
        /\ \A j \in Calls :
              (i < j /\ Returned(j) /\ regLog[j].uid = regLog[i].uid) =>
                 /\ regLog[j].ret = regLog[i].ret
                 /\ regLog[j].after = regLog[j].before

IndexIsPosition(infos) == \A i \in 1..Len(infos) : infos[i].index = i - 1

\* C2: the entry at position i has index i; no step removes or reorders an
\* entry; an identity that findImage finds at an index is found at that
\* index ever after.
C2_AppendOnlyPermanent ==
    /\ [](IndexIsPosition(fImageInfo))
    /\ [][/\ Len(fImageInfo') >= Len(fImageInfo)
          /\ \A i \in 1..Len(fImageInfo) :
                /\ fImageInfo'[i].index = fImageInfo[i].index
                /\ fImageInfo'[i].originalUniqueID = fImageInfo[i].originalUniqueID
          /\ \A img \in Images :
                findImage(fImageInfo, img.uid) >= 0 =>
                   findImage(fImageInfo', img.uid) = findImage(fImageInfo, img.uid)]_vars

\* two entries, looked up again after upload, reinflate and teardown
C2_Witness ==
    /\ phase = "TornDown"
    /\ Len(fImageInfo) = 2
    /\ findImage(fImageInfo, fImageInfo[2].originalUniqueID) = 1
    /\ \E r \in DOMAIN rec : Len(rec[r].scene) >= 2

\* C7: a first registration of an image whose pixels cannot be read comes
\* back with the negative sentinel, no assertion stops the program, and the
\* hook emits no token for it.
C7_FailureIsSentinel ==
    \A i \in Calls :
        (/\ regLog[i].found < 0
         /\ ~ImageOf(regLog[i].uid).yuv
         /\ ~ImageOf(regLog[i].uid).decodable) =>
            /\ Returned(i)
            /\ regLog[i].ret < 0
            /\ ~regLog[i].emitted

-----------------------------------------------------------------------------
(* Reinflate, done and teardown                                            *)

IsPromise(image) == image.kind \in {"promise", "yuvPromise"}

\* the token recorder r read at position p of its stream
TokenAt(r, p) == BytesToInt(rec[r].data[p])

\* the images recorder r has been given so far, by position
Produced(r) == 1..Len(rec[r].scene)

\* the promise images, over all recorders, that captured context c
ImagesOver(c) ==
    UNION {{<<r, p>> : p \in {q \in Produced(r) :
                \E k \in 1..kMaxCount : rec[r].scene[q].ctxs[k] = c}} :
           r \in DOMAIN rec}

\* the reference the catalog itself holds on context c
CatalogRef(c) ==
    IF phase # "TornDown" /\ c \in HeldContexts(fImageInfo) THEN 1 ELSE 0

\* every texture of the entry was created
UploadSucceeded(info) ==
    \A k \in 1..kMaxCount :
        CapturedContexts(info)[k] # 0 => contexts[CapturedContexts(info)[k]].texValid

\* C3: each token of an entry whose upload succeeded gives each recorder a
\* promise image of its own over the entry's contexts, and every such
\* context counts one reference per image minted over it, on top of the
\* catalog's own and less the done calls received.
C3_SharedContextMultiplicity ==
    /\ \A r \in DOMAIN rec : \A p \in Produced(r) :
          (isValidID(fImageInfo, TokenAt(r, p))
           /\ UploadSucceeded(fImageInfo[TokenAt(r, p) + 1])) =>
              /\ IsPromise(rec[r].scene[p])
              /\ rec[r].scene[p].ctxs = CapturedContexts(fImageInfo[TokenAt(r, p) + 1])
              /\ \A r2 \in DOMAIN rec : \A p2 \in Produced(r2) :
                    <<r2, p2>> # <<r, p>> => rec[r2].scene[p2].id # rec[r].scene[p].id
    /\ \A i \in 1..Len(fImageInfo) :
          (phase \in {"Ready", "TornDown"} /\ UploadSucceeded(fImageInfo[i])) =>
             \A k \in 1..kMaxCount :
                LET c == CapturedContexts(fImageInfo[i])[k]
                IN c # 0 => contexts[c].refCnt =
                      CatalogRef(c) + Cardinality(ImagesOver(c)) - contexts[c].done

\* both recorders were handed the stream, and an entry behind two of its
\* tokens has four promise images over one context
C3_Witness ==
    /\ phase = "Ready"
    /\ \A r \in DOMAIN rec : rec[r].status = "done" /\ rec[r].data = stream
    /\ \E c \in 1..Len(contexts) :
          /\ contexts[c].texValid
          /\ contexts[c].done = 0
          /\ Cardinality(ImagesOver(c)) = 4
          /\ contexts[c].refCnt = 5

\* C4: a texture is deleted when its context's count reaches zero and at
\* no other time: while references remain it has not been deleted, once
\* none remains it has been deleted exactly once, and a context without a
\* texture deletes nothing.
C4_LifecycleCorrect ==
    \A c \in 1..Len(contexts) :
        /\ contexts[c].refCnt >= 0
        /\ contexts[c].deletes =
              (IF contexts[c].texValid /\ contexts[c].refCnt = 0 THEN 1 ELSE 0)

\* a texture deleted by the last of several done calls, after teardown
C4_Witness ==
    \E c \in 1..Len(contexts) :
        /\ contexts[c].texValid
        /\ contexts[c].minted >= 2
        /\ contexts[c].done = contexts[c].minted
        /\ contexts[c].deletes = 1

\* C5: a token of a non-YUV entry whose texture could not be created gives
\* every recorder a raster image with the pixels captured from the image,
\* outside the list of promise images and with no reference taken; tokens
\* of the entries whose textures exist still give promise images.
C5_GracefulFallback ==
    \A r \in DOMAIN rec : \A p \in Produced(r) :
        isValidID(fImageInfo, TokenAt(r, p)) =>
            LET info == fImageInfo[TokenAt(r, p) + 1]
                image == rec[r].scene[p]
            IN /\ (~isYUV(info) /\ ~backendTextureValid(contexts, info, 0)) =>
                     /\ image.kind = "raster"
                     /\ image.pixels = ImageOf(info.originalUniqueID).pixels
                     /\ image.w = info.overallII.w /\ image.h = info.overallII.h
                     /\ \A q \in 1..Len(rec[r].promiseImages) :
                           rec[r].promiseImages[q].id # image.id
                     /\ contexts[info.callbackContexts[1]].minted = 0
               /\ backendTextureValid(contexts, info, 0) => IsPromise(image)

\* C6 as stated: a finished reinflateSKP has appended every image it
\* produced, one per token, promise image or not.
C6_EveryImageAppended ==
    \A r \in DOMAIN rec :
        rec[r].status = "done" =>
            /\ Len(rec[r].promiseImages) = Len(rec[r].data)
            /\ rec[r].promiseImages = rec[r].scene

\* C6 amended: the list holds the promise images produced, in stream order,
\* and nothing else; a token gives a promise image exactly when texture 0
\* of its entry is valid, and one image is produced per token.
C6_PromiseImagesAppended ==
    \A r \in DOMAIN rec :
        /\ rec[r].promiseImages = SelectSeq(rec[r].scene, IsPromise)
        /\ Len(rec[r].scene) = rec[r].pos - 1
        /\ rec[r].status = "done" => Len(rec[r].scene) = Len(rec[r].data)
        /\ \A p \in Produced(r) :
              isValidID(fImageInfo, TokenAt(r, p)) =>
                 (IsPromise(rec[r].scene[p]) <=>
                     backendTextureValid(contexts, fImageInfo[TokenAt(r, p) + 1], 0))

\* a finished call that produced a promise image and a raster image
C6_Witness ==
    \E r \in DOMAIN rec :
        /\ rec[r].status = "done"
        /\ Len(rec[r].scene) = 2
        /\ Len(rec[r].promiseImages) = 1
        /\ \E p \in Produced(r) : rec[r].scene[p].kind = "raster"

\* the scenario: every registration returned, every texture was created and
\* the three recorders have finished
ScenarioRegistered == Len(regLog) = Len(ScenarioPicture) /\ \A i \in Calls : Returned(i)

ScenarioReinflated ==
    /\ ScenarioRegistered
    /\ phase = "Ready"
    /\ \A c \in 1..Len(contexts) : contexts[c].texValid
    /\ \A r \in DOMAIN rec :
          rec[r].status = "done" /\ rec[r].data = <<IntToBytes(0), IntToBytes(1)>>

PromiseImagesMade ==
    UNION {{<<r, p>> : p \in {q \in Produced(r) : IsPromise(rec[r].scene[q])}} :
           r \in DOMAIN rec}

ScenarioRefCounts(n) ==
    /\ contexts[fImageInfo[1].callbackContexts[1]].refCnt = n
    /\ \A k \in 1..3 : contexts[fImageInfo[2].callbackContexts[k]].refCnt = n
    /\ fImageInfo[2].callbackContexts[4] = 0

ScenarioIndices ==
    /\ [i \in Calls |-> regLog[i].ret] = <<0, 1, 0>>
    /\ Len(fImageInfo) = 2

\* C8 as stated: indices 0, 1, 0 and two entries; six promise images; every
\* context has reference count 3.
C8_ScenarioCountThree ==
    /\ ScenarioRegistered => ScenarioIndices
    /\ ScenarioReinflated =>
          Cardinality(PromiseImagesMade) = 6 /\ ScenarioRefCounts(3)

\* C8 amended: indices 0, 1, 0 and two entries; six promise images; every
\* context has reference count 4, the catalog's own reference and the three
\* taken for the recorders' images.
C8_ScenarioCountFour ==
    /\ ScenarioRegistered => ScenarioIndices
    /\ ScenarioReinflated =>
          /\ Cardinality(PromiseImagesMade) = 6
          /\ ScenarioRefCounts(4)
          /\ \A c \in 1..Len(contexts) : contexts[c].minted = 3

C8_Witness == ScenarioReinflated /\ Len(contexts) = 4

\* C9: no image is ever produced, and no reference taken, for a token whose
\* index no entry has: the call stops there.
C9_OutOfRangeFatal ==
    \A r \in DOMAIN rec : \A p \in Produced(r) : isValidID(fImageInfo, TokenAt(r, p))

\* C10: while reinflate can run every YUV entry has a valid texture in each
\* of its planes, so no token of a YUV entry gives a raster or null image
\* or a promise image over an invalid texture.
C10_YUVFailureFatal ==
    /\ phase \in {"Ready", "TornDown"} =>
          \A i \in 1..Len(fImageInfo) :
              isYUV(fImageInfo[i]) => UploadSucceeded(fImageInfo[i])
    /\ \A r \in DOMAIN rec : \A p \in Produced(r) :
          (isValidID(fImageInfo, TokenAt(r, p)) /\ isYUV(fImageInfo[TokenAt(r, p) + 1])) =>
              /\ rec[r].scene[p].kind = "yuvPromise"
              /\ \A k \in 1..kMaxCount :
                    rec[r].scene[p].ctxs[k] # 0 =>
                       contexts[rec[r].scene[p].ctxs[k]].texValid

-----------------------------------------------------------------------------
(* Resolution, frame conditions and fidelity                               *)

\* C11: once upload has completed, any two resolutions of one entry's
\* token, by any recorders and in any interleaving with other reinflate
\* and done calls, take the same path: both give a promise image over the
\* entry's contexts, or both give the fallback built from the entry's
\* captured bitmap; the path is the one the catalog's texture 0 fixes.
C11_IdenticalResolution ==
    \A r \in DOMAIN rec : \A p \in Produced(r) :
        isValidID(fImageInfo, TokenAt(r, p)) =>
            LET info == fImageInfo[TokenAt(r, p) + 1]
                a == rec[r].scene[p]
            IN /\ IsPromise(a) => a.ctxs = CapturedContexts(info)
               /\ ~IsPromise(a) => a = MakeFromBitmap(info.normalBitmap, a.id)
                                      \/ a = NullImage
               /\ \A r2 \in DOMAIN rec : \A p2 \in Produced(r2) :
                     TokenAt(r2, p2) = TokenAt(r, p) =>
                        LET b == rec[r2].scene[p2]
                        IN /\ b.kind = a.kind
                           /\ b.ctxs = a.ctxs
                           /\ b.pixels = a.pixels
                           /\ b.w = a.w /\ b.h = a.h /\ b.ct = a.ct /\ b.at = a.at

\* two recorders resolved one token to the fallback and another token to
\* promise images, with a done call received in between
C11_Witness ==
    \E r, r2 \in DOMAIN rec : \E p, q \in Produced(r) : \E p2, q2 \in Produced(r2) :
        /\ r # r2
        /\ TokenAt(r, p) = TokenAt(r2, p2)
        /\ rec[r].scene[p].kind = "raster" /\ rec[r2].scene[p2].kind = "raster"
        /\ TokenAt(r, q) = TokenAt(r2, q2)
        /\ IsPromise(rec[r].scene[q]) /\ IsPromise(rec[r2].scene[q2])
        /\ \E c \in 1..Len(contexts) : contexts[c].done > 0

\* a step of some reinflateSKP call: it is entered, or its callback runs
ReinflateStep == phase = "Ready" /\ phase' = "Ready" /\ (rec' # rec \/ abort' # abort)

\* C12: a step of reinflateSKP, whatever other calls it is interleaved
\* with, leaves the catalog as it is (its size, and every entry's index,
\* identity, descriptor, bitmap, plane data and contexts) and every
\* context's texture; it changes nothing but reference counts, which it
\* only raises, and the recorder's own lists.
C12_ReinflateReadsCatalog ==
    [][ReinflateStep =>
          /\ fImageInfo' = fImageInfo
          /\ stream' = stream /\ regLog' = regLog
          /\ Len(contexts') = Len(contexts)
          /\ \A c \in 1..Len(contexts) :
                /\ contexts'[c].texValid = contexts[c].texValid
                /\ contexts'[c].deletes = contexts[c].deletes
                /\ contexts'[c].done = contexts[c].done
                /\ contexts'[c].refCnt >= contexts[c].refCnt
                /\ contexts'[c].refCnt - contexts[c].refCnt =
                      contexts'[c].minted - contexts[c].minted]_vars

\* two reinflateSKP calls under way at once, each past its first token,
\* with references taken on a context by both
C12_Witness ==
    \E r, r2 \in DOMAIN rec :
        /\ r # r2
        /\ rec[r].status = "running" /\ rec[r].pos > 1
        /\ rec[r2].status = "running" /\ rec[r2].pos > 1
        /\ \E c \in 1..Len(contexts) :
              /\ contexts[c].refCnt >= 3
              /\ \E p \in Produced(r) : c \in {rec[r].scene[p].ctxs[k] : k \in 1..kMaxCount}
              /\ \E p \in Produced(r2) : c \in {rec[r2].scene[p].ctxs[k] : k \in 1..kMaxCount}

\* what registration captured in an entry
Captured(info) ==
    [index |-> info.index, originalUniqueID |-> info.originalUniqueID,
     overallII |-> info.overallII, yuvData |-> info.yuvData,
     yuvaIndices |-> info.yuvaIndices, yuvPixmaps |-> info.yuvPixmaps,
     normalBitmap |-> info.normalBitmap]

\* the plane slots of an entry that hold a context
FilledSlots(info) == {p \in 1..kMaxCount : info.callbackContexts[p] # 0}

\* the slots uploadAllToGPU is to fill in an entry
SlotsToFill(info) ==
    IF isYUV(info) THEN 1..AreValidIndices(info.yuvaIndices).numPlanes ELSE {1}

UploadStep == phase = "Open" /\ phase' \in {"Uploading", "Ready"}

\* C13: uploadAllToGPU leaves the catalog's size and what registration
\* captured in every entry as they were, and the stream and the recorders
\* alone; when it completes, every non-YUV entry holds one context, in slot
\* 0, every YUV entry one per plane, and each of these is a context of its
\* own that the call created, referenced by the catalog alone.
C13_UploadFillsContexts ==
    [][UploadStep =>
          /\ Len(fImageInfo') = Len(fImageInfo)
          /\ \A i \in 1..Len(fImageInfo) : Captured(fImageInfo'[i]) = Captured(fImageInfo[i])
          /\ stream' = stream /\ regLog' = regLog /\ rec' = rec
          /\ SubSeq(contexts', 1, Len(contexts)) = contexts
          /\ phase' = "Ready" =>
                /\ \A i \in 1..Len(fImageInfo) :
                      /\ FilledSlots(fImageInfo'[i]) = SlotsToFill(fImageInfo[i])
                      /\ \A p \in FilledSlots(fImageInfo'[i]) :
                            /\ fImageInfo'[i].callbackContexts[p] \in
                                  (Len(contexts) + 1)..Len(contexts')
                            /\ contexts'[fImageInfo'[i].callbackContexts[p]].refCnt = 1
                            /\ \A j \in 1..Len(fImageInfo) : \A q \in FilledSlots(fImageInfo'[j]) :
                                  <<j, q>> # <<i, p>> =>
                                     fImageInfo'[j].callbackContexts[q] #
                                        fImageInfo'[i].callbackContexts[p]
                /\ HeldContexts(fImageInfo') = (Len(contexts) + 1)..Len(contexts')]_vars

\* an upload that completed over a YUV entry and a non-YUV entry whose
\* texture could not be created: four contexts
C13_Witness ==
    /\ phase = "Ready"
    /\ Len(fImageInfo) = 2
    /\ \E i, j \in 1..2 :
          /\ isYUV(fImageInfo[i]) /\ FilledSlots(fImageInfo[i]) = {1, 2, 3}
          /\ ~isYUV(fImageInfo[j]) /\ FilledSlots(fImageInfo[j]) = {1}
          /\ ~contexts[fImageInfo[j].callbackContexts[1]].texValid
    /\ Len(contexts) = 4

\* C14: a token the hook emitted for an image X resolves, after upload, to
\* the entry that carries X's identity, and the image produced from it,
\* promise image or fallback, has X's width, height, colour type and alpha
\* type.
C14_RoundTripFidelity ==
    \A i \in Calls : regLog[i].emitted =>
        \A r \in DOMAIN rec : \A p \in Produced(r) :
            TokenAt(r, p) = regLog[i].ret =>
                LET X == ImageOf(regLog[i].uid)
                    image == rec[r].scene[p]
                IN /\ isValidID(fImageInfo, TokenAt(r, p))
                   /\ fImageInfo[TokenAt(r, p) + 1].originalUniqueID = X.uid
                   /\ image.w = X.w /\ image.h = X.h
                   /\ image.ct = X.ct /\ image.at = X.at

-----------------------------------------------------------------------------
(* What an entry holds                                                     *)

HasNormalBitmap(info) ==
    info.normalBitmap.pixels # "none" /\ info.normalBitmap.immutable

HasYUVPlanes(info) ==
    isYUV(info) /\ \E p \in 1..kMaxCount : info.yuvPixmaps[p] # NoPixmap

\* C15: after any sequence of findOrDefineImage calls, failed ones
\* included, every entry of the catalog holds an immutable normal bitmap or
\* a YUV plane decomposition, and not both.
C15_OneRepresentation ==
    \A i \in 1..Len(fImageInfo) :
        HasNormalBitmap(fImageInfo[i]) # HasYUVPlanes(fImageInfo[i])

\* C19: a findOrDefineImage call that returns the failure sentinel leaves
\* the catalog at the size it had, a later call for the same image finds
\* no entry of it, and no entry is without captured pixel data.
C19_FailedRegistrationNoTrace ==
    /\ \A i \in Calls :
          (Returned(i) /\ regLog[i].ret < 0) =>
             /\ regLog[i].after = regLog[i].before
             /\ \A j \in Calls :
                   (i < j /\ regLog[j].uid = regLog[i].uid) => regLog[j].found < 0
    /\ \A i \in 1..Len(fImageInfo) :
          fImageInfo[i].normalBitmap # NoBitmap \/ isYUV(fImageInfo[i])

-----------------------------------------------------------------------------
(* References and textures                                                 *)

\* the plane references promise images hold on context c
PlaneRefs(c) ==
    UNION {{t \in {<<r, p, k>> : p \in Produced(r), k \in 1..kMaxCount} :
                rec[r].scene[t[2]].ctxs[t[3]] = c} :
           r \in DOMAIN rec}

\* the references minted on context c and not yet given back
Outstanding(c) == Cardinality(PlaneRefs(c)) - contexts[c].done

\* every done callback owed has been delivered and the helper destroyed
AllReleased ==
    /\ phase = "TornDown"
    /\ \A c \in 1..Len(contexts) : contexts[c].done = contexts[c].minted

\* C17: once upload has completed, if every done callback owed is
\* delivered and the helper is destroyed, then, unless the process stops
\* first, a state is reached where all references are gone and every
\* valid texture upload created has been deleted once, and no context
\* without a texture has deleted anything.
C17_NoTextureLeak ==
    (phase = "Ready") ~>
        (\/ abort # "none"
         \/ /\ AllReleased
            /\ \A c \in 1..Len(contexts) :
                  /\ contexts[c].refCnt = 0
                  /\ contexts[c].deletes = (IF contexts[c].texValid THEN 1 ELSE 0))

\* teardown came before the last done for one texture and after it for
\* another, a third context never had a texture, and all is released
C17_Witness ==
    /\ AllReleased
    /\ \E c \in 1..Len(contexts) : contexts[c].texValid /\ contexts[c].minted >= 1
    /\ \E c \in 1..Len(contexts) : ~contexts[c].texValid /\ contexts[c].deletes = 0
    /\ \A c \in 1..Len(contexts) : contexts[c].texValid => contexts[c].deletes = 1

\* C18: in every interleaving of reinflate, done and teardown, a context's
\* count is the catalog's reference (1 until teardown) plus the plane
\* references minted on it and not yet given back, never below zero, and
\* its texture is not deleted while the catalog holds the context or a
\* plane reference is outstanding, nor deleted twice.
C18_NoUseAfterDelete ==
    \A c \in 1..Len(contexts) :
        /\ Outstanding(c) >= 0
        /\ contexts[c].refCnt >= 0
        /\ phase \in {"Ready", "TornDown"} =>
              contexts[c].refCnt = CatalogRef(c) + Outstanding(c)
        /\ (CatalogRef(c) = 1 \/ Outstanding(c) > 0) => contexts[c].deletes = 0
        /\ contexts[c].deletes <= 1

\* after teardown a promise image still holds a texture that an earlier
\* done did not free, while another texture has been deleted
C18_Witness ==
    /\ phase = "TornDown"
    /\ \E c \in 1..Len(contexts) :
          /\ contexts[c].texValid /\ contexts[c].done >= 1
          /\ Outstanding(c) = 1 /\ contexts[c].refCnt = 1 /\ contexts[c].deletes = 0
    /\ \E c \in 1..Len(contexts) : contexts[c].deletes = 1

-----------------------------------------------------------------------------
(* Planes of a YUV entry                                                   *)

\* the plane pixmaps registration captured
PixmapSlots(info) == {p \in 1..kMaxCount : info.yuvPixmaps[p] # NoPixmap}

\* the plane slots the index mapping names
NamedSlots(indices) == {indices[k] : k \in 1..kIndexCount} \ {-1}

\* the plane slots of the contexts an image references
ImageSlots(image) == {p \in 1..kMaxCount : image.ctxs[p] # 0}

\* the promise images minted from the tokens of entry i (1-based)
YUVImagesOf(i) ==
    UNION {{rec[r].scene[p] : p \in {q \in Produced(r) :
                TokenAt(r, q) = i - 1 /\ rec[r].scene[q].kind = "yuvPromise"}} :
           r \in DOMAIN rec}

\* uploadAllToGPU has run to its end over a catalog that has entries
UploadCompleted == phase \in {"Ready", "TornDown"} /\ Len(contexts) > 0

\* C16 as stated: for every YUV entry the pixmaps captured, the contexts
\* upload created and the contexts each of its promise images references
\* are as many as the non-negative indices of its mapping, between 1 and 4.
C16_PlanesEqualValidIndices ==
    \A i \in 1..Len(fImageInfo) : isYUV(fImageInfo[i]) =>
        LET n == ValidIndexCount(fImageInfo[i].yuvaIndices)
        IN /\ n \in 1..kMaxCount
           /\ Cardinality(PixmapSlots(fImageInfo[i])) = n
           /\ UploadCompleted => Cardinality(FilledSlots(fImageInfo[i])) = n
           /\ \A image \in YUVImagesOf(i) : Cardinality(ImageSlots(image)) = n

\* C16 amended: for every YUV entry upload fills the slots 0..n-1 and each
\* of its promise images references the contexts of exactly those slots,
\* n being the plane count AreValidIndices gives for the mapping, between 1
\* and 4; the pixmaps captured are those of the plane slots the mapping
\* names, between 1 and 4; all of these are as many as the non-negative
\* indices when no two indices name the same slot.
C16_PlanesPerMapping ==
    \A i \in 1..Len(fImageInfo) : isYUV(fImageInfo[i]) =>
        LET indices == fImageInfo[i].yuvaIndices
            n == AreValidIndices(indices).numPlanes
        IN /\ n \in 1..kMaxCount
           /\ UploadCompleted => FilledSlots(fImageInfo[i]) = 1..n
           /\ \A image \in YUVImagesOf(i) :
                 /\ ImageSlots(image) = 1..n
                 /\ \A p \in 1..n : image.ctxs[p] = fImageInfo[i].callbackContexts[p]
           /\ PixmapSlots(fImageInfo[i]) = {t + 1 : t \in NamedSlots(indices)}
           /\ Cardinality(PixmapSlots(fImageInfo[i])) \in 1..kMaxCount
           /\ Cardinality(NamedSlots(indices)) = ValidIndexCount(indices) =>
                 /\ Cardinality(PixmapSlots(fImageInfo[i])) = ValidIndexCount(indices)
                 /\ n = ValidIndexCount(indices)

\* promise images were minted for an entry of three planes and for an
\* entry whose two chroma channels share a plane
C16_Witness ==
    /\ phase = "Ready"
    /\ \E i, j \in 1..Len(fImageInfo) :
          /\ fImageInfo[i].yuvaIndices = <<0, 1, 2, -1>> /\ YUVImagesOf(i) # {}
          /\ fImageInfo[j].yuvaIndices = <<0, 1, 1, -1>> /\ YUVImagesOf(j) # {}
          /\ Cardinality(PixmapSlots(fImageInfo[j])) = 2

-----------------------------------------------------------------------------
(* The semaphore's sync                                                    *)

SemCalls == 1..Len(sem.log)

\* C20: over any sequence of onRelease and onAbandon calls, deleteSync is
\* called only by onRelease, only on an owned semaphore and only with the
\* non-zero handle it held; onAbandon deletes nothing; either call leaves
\* the handle 0; no sync is deleted twice; and the sync of a wrapped
\* semaphore is never deleted.
C20_SemaphoreOwnership ==
    /\ \A i \in SemCalls :
          LET e == sem.log[i]
          IN /\ e.deleted # 0 =>
                   /\ e.op = "onRelease"
                   /\ sem.obj.fIsOwned
                   /\ e.before # 0 /\ e.deleted = e.before
             /\ e.op = "onAbandon" => e.deleted = 0
             /\ e.op \in {"onRelease", "onAbandon"} => e.after = 0
    /\ (Len(sem.log) > 0 /\ sem.log[Len(sem.log)].op # "setSync") => sem.obj.fSync = 0
    /\ \A h \in 1..MaxSyncs : sem.deletes[h] <= 1
    /\ ~sem.obj.fIsOwned => \A h \in 1..MaxSyncs : sem.deletes[h] = 0

\* an owned semaphore was given a sync, released, released again and
\* abandoned: the sync has been deleted once
C20_Witness ==
    /\ sem.obj.fIsOwned
    /\ [i \in SemCalls |-> sem.log[i].op] =
          <<"setSync", "onRelease", "onRelease", "onAbandon">>
    /\ sem.deletes[1] = 1
    /\ sem.obj.fSync = 0

=============================================================================
